---- MODULE Spec2Model ----
(***************************************************************************)
(* BioPharm Ultra 2026 (src/app.py): a Streamlit page.  Every user         *)
(* interaction re-runs the script top to bottom; one action of this model  *)
(* is one such page run.  Text is a sequence of one-character strings, a   *)
(* fixed message of the program is a one-element sequence holding it.      *)
(***************************************************************************)
EXTENDS Integers, Sequences, FiniteSets, TLC

\* ------------------------------------------------------------------ bounds
MaxRows == 2
MaxTurns == 2

\* ------------------------------------------------------------------ text
\* ord(): the code point, which Python's string comparison uses
Ord(c) == CASE c = "A" -> 65 [] c = "B" -> 66 [] c = "a" -> 97 [] c = "b" -> 98
            [] OTHER -> 0

\* str.lower() on one character
LowerChar(c) == CASE c = "A" -> "a" [] c = "B" -> "b" [] OTHER -> c

\* a lower() that leaves every letter as typed
keep_case(s) == s

\* str.lower()
lower(s) == [i \in 1..Len(s) |-> LowerChar(s[i])]

\* the questions a user submits to the chat: never empty
Prompts == {<<"a">>, <<"A">>, <<"a", "B">>, <<"B">>, <<"b", "b">>, <<"b", "a">>}

\* what an operator types into "Pergunta ou Conceito:"
Perguntas == {<<>>, <<"A">>, <<"a", "b">>, <<"a", "B">>}

\* what an operator types into "Resposta Detalhada:"
Respostas == {<<>>, <<"a">>, <<"A">>}

\* Python's < on str
RECURSIVE StrLess(_, _)
StrLess(s, t) ==
    IF t = <<>> THEN FALSE
    ELSE IF s = <<>> THEN TRUE
    ELSE IF Ord(Head(s)) # Ord(Head(t)) THEN Ord(Head(s)) < Ord(Head(t))
    ELSE StrLess(Tail(s), Tail(t))

Min(a, b) == IF a <= b THEN a ELSE b

\* ------------------------------------------------------------------ difflib
\* All indices below are Python's: 0-based, ranges half-open.

\* length of the common run of a[i:ahi] and b[j:bhi] starting at (i, j)
RECURSIVE RunLen(_, _, _, _, _, _)
RunLen(a, b, i, j, ahi, bhi) ==
    IF i < ahi /\ j < bhi /\ a[i + 1] = b[j + 1]
    THEN 1 + RunLen(a, b, i + 1, j + 1, ahi, bhi)
    ELSE 0

\* the blocks <<i, j, k>> of a[alo:ahi], b[blo:bhi] with k the length of the
\* common run starting at (i, j)
runs(a, b, alo, ahi, blo, bhi) ==
    {<<i, j, RunLen(a, b, i, j, ahi, bhi)>> :
        i \in alo..(ahi - 1), j \in blo..(bhi - 1)}

\* of a non-empty set of blocks, those of the greatest length
longest(R) == {r \in R : \A q \in R : q[3] <= r[3]}

\* the longest blocks of a[alo:ahi], b[blo:bhi]
longest_blocks(a, b, alo, ahi, blo, bhi) == longest(runs(a, b, alo, ahi, blo, bhi))

\* of the longest blocks, the one starting earliest in a, then earliest in b;
\* <<alo, blo, 0>> when there is none or they are empty
first_block(alo, blo, Top) ==
    IF Top = {} \/ \A r \in Top : r[3] = 0 THEN <<alo, blo, 0>>
    ELSE CHOOSE p \in Top :
            \A q \in Top : p[1] < q[1] \/ (p[1] = q[1] /\ p[2] <= q[2])

\* SequenceMatcher.find_longest_match(alo, ahi, blo, bhi) without junk (autojunk
\* needs len(b) >= 200): the j2len scan visits block ends in increasing (i, j)
\* and replaces the best block only by a strictly longer one, so it returns the
\* longest block and, among the longest, the one starting earliest in a, then
\* earliest in b; (alo, blo, 0) when nothing matches.
find_longest_match(a, b, alo, ahi, blo, bhi) ==
    first_block(alo, blo, longest_blocks(a, b, alo, ahi, blo, bhi))

RECURSIVE matching_size(_, _, _, _, _, _)

\* the queue step of get_matching_blocks for the block (i, j, k) found in
\* a[alo:ahi], b[blo:bhi]: the block, then the pieces left and right of it
around(a, b, alo, ahi, blo, bhi, i, j, k) ==
    IF k = 0 THEN 0
    ELSE k
         + (IF alo < i /\ blo < j
            THEN matching_size(a, b, alo, i, blo, j) ELSE 0)
         + (IF i + k < ahi /\ j + k < bhi
            THEN matching_size(a, b, i + k, ahi, j + k, bhi) ELSE 0)

\* the block <<i, j, k>> handed to the queue step
around_block(a, b, alo, ahi, blo, bhi, m) ==
    around(a, b, alo, ahi, blo, bhi, m[1], m[2], m[3])

\* sum of the sizes of SequenceMatcher.get_matching_blocks() over a[alo:ahi],
\* b[blo:bhi]
matching_size(a, b, alo, ahi, blo, bhi) ==
    around_block(a, b, alo, ahi, blo, bhi,
                 find_longest_match(a, b, alo, ahi, blo, bhi))

\* SequenceMatcher.ratio() = 2.0 * matches / (len(a) + len(b)), kept as the
\* fraction <<numerator, denominator>>; 1.0 when both are empty
ratio(a, b) ==
    IF Len(a) + Len(b) = 0 THEN <<1, 1>>
    ELSE <<2 * matching_size(a, b, 0, Len(a), 0, Len(b)), Len(a) + Len(b)>>

\* SequenceMatcher.real_quick_ratio(): from the lengths alone
real_quick_ratio(a, b) ==
    IF Len(a) + Len(b) = 0 THEN <<1, 1>>
    ELSE <<2 * Min(Len(a), Len(b)), Len(a) + Len(b)>>

\* occurrences of c in s
count(s, c) == Cardinality({i \in 1..Len(s) : s[i] = c})

\* size of the multiset intersection of a and b over the characters in S
RECURSIVE common(_, _, _)

\* the step of common for the character c of S
common_from(c, S, a, b) ==
    Min(count(a, c), count(b, c)) + common(S \ {c}, a, b)

common(S, a, b) ==
    IF S = {} THEN 0
    ELSE common_from(CHOOSE x \in S : TRUE, S, a, b)

\* SequenceMatcher.quick_ratio(): from the multiset intersection of characters
quick_ratio(a, b) ==
    IF Len(a) + Len(b) = 0 THEN <<1, 1>>
    ELSE <<2 * common({a[i] : i \in 1..Len(a)}, a, b), Len(a) + Len(b)>>

\* cutoff=0.6 of the chat handler's get_close_matches call, as a fraction
CUTOFF == <<6, 10>>

\* f >= g on fractions with positive denominators
FracGE(f, g) == f[1] * g[2] >= g[1] * f[2]

\* the possibilities get_close_matches scores: those whose three ratios reach
\* the cutoff
close(word, possibilities, cutoff) ==
    {x \in possibilities :
        /\ FracGE(real_quick_ratio(x, word), cutoff)
        /\ FracGE(quick_ratio(x, word), cutoff)
        /\ FracGE(ratio(x, word), cutoff)}

\* (score, x) >= (score, y) as Python compares tuples
TupleGE(p, q) ==
    \/ p[1][1] * q[1][2] > q[1][1] * p[1][2]
    \/ p[1][1] * q[1][2] = q[1][1] * p[1][2] /\ (p[2] = q[2] \/ StrLess(q[2], p[2]))

\* [x for score, x in heapq.nlargest(1, result)]: max() over the tuples
nlargest1(result) ==
    IF result = {} THEN <<>>
    ELSE <<(CHOOSE p \in result : \A q \in result : TupleGE(p, q))[2]>>

\* difflib.get_close_matches(word, possibilities, n=1, cutoff): s.set_seq2(word),
\* then for each x: s.set_seq1(x), kept when the three ratios reach the cutoff;
\* heapq.nlargest(1, ...) is max() over (score, x) tuples.  The result is the
\* list of at most one possibility.
get_close_matches(word, possibilities, cutoff) ==
    nlargest1({<<ratio(x, word), x>> : x \in close(word, possibilities, cutoff)})

\* ------------------------------------------------------------------ messages
\* the chat handler's default answer (app.py line 203), accents dropped
NAO_ENCONTREI == <<"Nao encontrei informacoes sobre isso.">>

\* the chat handler's answer when its try block raises (line 218)
ERRO_CONEXAO == <<"Erro ao conectar aos servicos de dados.">>

\* st.error of the reaction balancer (line 257)
ERRO_SINTAXE == <<"Erro na sintaxe da equacao. Use 'A + B -> C'.">>

\* st.warning of the admin form (line 300)
PREENCHA == <<"Preencha todos os campos.">>

\* st.success of the admin form (line 298)
SUCESSO == <<"Conhecimento integrado com sucesso!">>

\* the options of the radio of the tables tab (line 225)
PERIODICA == "Tabela Periodica"
KPS == "Kps (Solubilidade)"

\* ------------------------------------------------------------------ PubChem
\* What requests.get can do for the chat handler's lookup: raise (timeout,
\* connection error), or return a response with a status and a body.  body is
\* "json" (PropertyTable.Properties holds props), or "notjson" (res.json() raises).
NoApi == [kind |-> "none", status |-> 0, body |-> "", props |-> <<>>]

PropsFull == [MolecularFormula |-> "C9H8O4", MolecularWeight |-> "180.16",
              IUPACName |-> "2-acetyloxybenzoic acid"]

ApiOutcomes ==
    { [kind |-> "raise", status |-> 0, body |-> "timeout", props |-> <<>>],
      [kind |-> "response", status |-> 404, body |-> "json", props |-> <<>>],
      [kind |-> "response", status |-> 200, body |-> "notjson", props |-> <<>>],
      [kind |-> "response", status |-> 200, body |-> "json", props |-> <<>>],
      [kind |-> "response", status |-> 200, body |-> "json", props |-> <<PropsFull>>] }

\* The outcome of a call of busca_api_pubchem: a dict (some), None, or an
\* exception leaving the function (raised)
None == [formula |-> "", massa |-> "", nome |-> "", some |-> FALSE, raised |-> FALSE]
Raised == [formula |-> "", massa |-> "", nome |-> "", some |-> FALSE, raised |-> TRUE]

\* busca_api_pubchem without its try/except: what raises inside leaves it
busca_api_pubchem_unguarded(res) ==
    IF res.kind # "response" THEN Raised
    ELSE IF res.status = 200
         THEN IF res.body = "json" /\ Len(res.props) >= 1
              THEN [formula |-> res.props[1].MolecularFormula,
                    massa |-> res.props[1].MolecularWeight,
                    nome |-> res.props[1].IUPACName,
                    some |-> TRUE, raised |-> FALSE]
              ELSE Raised
         ELSE None

\* busca_api_pubchem(termo), given what the GET does: the dict of the first
\* property record on a 200, None when the status is not 200 (the function
\* falls off its end) and None when anything raises (bare except); nothing
\* leaves it as an exception
busca_api_pubchem(res) ==
    IF res.kind # "response" THEN None
    ELSE IF res.status = 200
         THEN IF res.body = "json" /\ Len(res.props) >= 1
              THEN [formula |-> res.props[1].MolecularFormula,
                    massa |-> res.props[1].MolecularWeight,
                    nome |-> res.props[1].IUPACName,
                    some |-> TRUE, raised |-> FALSE]
              ELSE None
         ELSE None

\* the f-string of line 216
FormatApi(d) ==
    <<"Resultado via API PubChem:", "Nome: ", d.nome, "Formula: ", d.formula,
      "Massa Molar: ", d.massa, " g/mol">>

\* ------------------------------------------------------------------ balancer
\* Reaction text: a sequence of symbols, a species name being one symbol.
\* "H2 + O2 -> H2O" and variants a user can type into the field of line 249.
ReactionInputs ==
    { <<"H2", " ", "+", " ", "O2", " ", "-", ">", " ", "H2O">>,
      <<"H2", "+", "O2", "-", ">", "H2O">>,
      <<"H2", " ", "+", " ", "O2">>,
      <<"H2", "-", " ", ">", "H2O">>,
      <<"H2", "-", ">", "O2", "-", ">", "H2O">>,
      <<"-", ">">>,
      <<>> }

\* index of the first occurrence of sep in s at or after position i, 0 if none
RECURSIVE Find(_, _, _)
Find(s, sep, i) ==
    IF i + Len(sep) - 1 > Len(s) THEN 0
    ELSE IF SubSeq(s, i, i + Len(sep) - 1) = sep THEN i
    ELSE Find(s, sep, i + 1)

\* str.split(sep): the pieces between the non-overlapping occurrences of sep,
\* left to right; always at least one piece
RECURSIVE split(_, _)
split(s, sep) ==
    LET i == Find(s, sep, 1)
    IN  IF i = 0 THEN <<s>>
        ELSE <<SubSeq(s, 1, i - 1)>> \o split(SubSeq(s, i + Len(sep), Len(s)), sep)

\* str.strip(): leading and trailing whitespace removed
RECURSIVE strip(_)
strip(s) ==
    IF s = <<>> THEN s
    ELSE IF Head(s) = " " THEN strip(Tail(s))
    ELSE IF s[Len(s)] = " " THEN strip(SubSeq(s, 1, Len(s) - 1))
    ELSE s

\* side.split("+") without the strip
species_unstripped(side) == split(side, <<"+">>)

\* [x.strip() for x in side.split("+")]  (lines 253, 254)
species(side) ==
    LET parts == split(side, <<"+">>)
    IN  [i \in 1..Len(parts) |-> strip(parts[i])]

\* ------------------------------------------------------------ curve plotter
\* Field texts of the plotter: sequences of characters.
\* The default of "Temps" (line 271): "0, 20, 40, 60, 80"
TEMPS_DEFAULT ==
    <<"0", ",", " ", "2", "0", ",", " ", "4", "0", ",", " ", "6", "0", ",", " ", "8", "0">>

\* The default of "Solubilidade" (line 272): "13, 32, 64, 110, 169"
SOLS_DEFAULT ==
    <<"1", "3", ",", " ", "3", "2", ",", " ", "6", "4", ",", " ", "1", "1", "0", ",", " ", "1", "6", "9">>

\* what a user types into "Temps": the default, "0, 20", "0, 20, 40",
\* "20, 0, 40", "0, 0, 40", "0, x"
TempInputs ==
    { TEMPS_DEFAULT,
      <<"0", ",", " ", "2", "0">>,
      <<"0", ",", " ", "2", "0", ",", " ", "4", "0">>,
      <<"2", "0", ",", " ", "0", ",", " ", "4", "0">>,
      <<"0", ",", " ", "0", ",", " ", "4", "0">>,
      <<"0", ",", " ", "x">> }

\* what a user types into "Solubilidade": the default, "13, 32", "13, 32, 64",
\* "13,"
SolInputs ==
    { SOLS_DEFAULT,
      <<"1", "3", ",", " ", "3", "2">>,
      <<"1", "3", ",", " ", "3", "2", ",", " ", "6", "4">>,
      <<"1", "3", ",">> }

\* the value of a decimal digit, -1 for any other character
Digit(c) == CASE c = "0" -> 0 [] c = "1" -> 1 [] c = "2" -> 2 [] c = "3" -> 3
              [] c = "4" -> 4 [] c = "5" -> 5 [] c = "6" -> 6 [] c = "7" -> 7
              [] c = "8" -> 8 [] c = "9" -> 9 [] OTHER -> -1

\* float() accepts the token: digits only, once the surrounding whitespace is
\* ignored (the field texts above hold no sign, point or exponent)
IsNumber(tok) ==
    /\ strip(tok) # <<>>
    /\ \A i \in 1..Len(strip(tok)) : Digit(strip(tok)[i]) >= 0

\* the number a string of digits denotes
RECURSIVE DigitsValue(_)
DigitsValue(ds) ==
    IF ds = <<>> THEN 0
    ELSE 10 * DigitsValue(SubSeq(ds, 1, Len(ds) - 1)) + Digit(ds[Len(ds)])

\* float(i) of a token float() accepts
float(tok) == DigitsValue(strip(tok))

\* Lines 275, 276: the split raises nothing; float() raises ValueError on the
\* first token it does not accept
AllNumbers(tokens) == \A i \in 1..Len(tokens) : IsNumber(tokens[i])

\* Lines 275, 276: [float(i) for i in text.split(",")] when no float() raises
floats(tokens) == [i \in 1..Len(tokens) |-> float(tokens[i])]

\* ndarray.min() and ndarray.max() of a non-empty array
ArrMin(a) == CHOOSE v \in {a[i] : i \in 1..Len(a)} : \A i \in 1..Len(a) : v <= a[i]
ArrMax(a) == CHOOSE v \in {a[i] : i \in 1..Len(a)} : \A i \in 1..Len(a) : v >= a[i]

\* Line 277: the resolution of the smoothed curve
NUM == 300

\* np.linspace(start, stop, num): start + i * (stop - start) / (num - 1) for
\* i = 0 .. num - 1, as fractions, the last sample set to stop itself
linspace(start, stop, num) ==
    [i \in 1..num |->
        IF i = num THEN <<stop, 1>>
        ELSE <<start * (num - 1) + (i - 1) * (stop - start), num - 1>>]

\* Line 278: the degree of the spline
K == 2

\* make_interp_spline's knots for k = 2, as fractions: x[0] and x[-1] k + 1
\* times each, and between them the midpoints of the data sites but the first
\* and the last
knots(x) ==
    [i \in 1..K + 1 |-> <<x[1], 1>>]
    \o [i \in 1..Len(x) - 3 |-> <<x[i + 1] + x[i + 2], 2>>]
    \o [i \in 1..K + 1 |-> <<x[Len(x)], 1>>]

\* make_interp_spline raises ValueError: x and y differ in length, x is not
\* strictly increasing, or there are fewer data sites than the k + 1
\* coefficients the knots of a degree k spline give
spline_raises(x, y) ==
    \/ Len(x) # Len(y)
    \/ \E i \in 1..Len(x) - 1 : x[i + 1] <= x[i]
    \/ Len(x) < K + 1

NoInterp == [grau |-> 0, nos |-> <<>>, sitios |-> <<>>, valores |-> <<>>]

\* make_interp_spline(x, y, k=2) when it does not raise: the spline of degree k
\* on those knots whose coefficients solve S(x[i]) = y[i] at every data site
make_interp_spline(x, y) == [grau |-> K, nos |-> knots(x), sitios |-> x, valores |-> y]

INSIRA == <<"Insira valores numericos separados por virgula para gerar o grafico.">>

\* what the state keeps of a sequence of samples: how many there are, the first
\* and the last
NoSamples == [n |-> 0, primeiro |-> <<>>, ultimo |-> <<>>]

Samples(f) ==
    [n |-> Cardinality(DOMAIN f), primeiro |-> f[1], ultimo |-> f[Cardinality(DOMAIN f)]]

NaoPlotado ==
    [interp |-> NoInterp, x_smooth |-> NoSamples, levantou |-> "",
     pontos_x |-> <<>>, pontos_y |-> <<>>, aviso |-> <<>>, grafico |-> FALSE]

\* Lines 277-285 on the parsed arrays: x_smooth, then the spline and y_smooth
\* (interp evaluated at x_smooth), then the figure; template="dark" (line 283)
\* is no template plotly knows, update_layout raises ValueError, and the bare
\* except of line 285 shows the notice instead of the chart
Smooth(x, y) ==
    [interp |-> IF spline_raises(x, y) THEN NoInterp ELSE make_interp_spline(x, y),
     x_smooth |-> Samples(linspace(ArrMin(x), ArrMax(x), NUM)),
     levantou |-> IF spline_raises(x, y) THEN "make_interp_spline" ELSE "update_layout",
     pontos_x |-> x, pontos_y |-> y,
     aviso |-> INSIRA, grafico |-> FALSE]

\* Lines 274-285, the plotter on the texts of its two fields
Plotter(temp, sol) ==
    IF ~AllNumbers(split(temp, <<",">>))
    THEN [NaoPlotado EXCEPT !.levantou = "float", !.aviso = INSIRA]
    ELSE IF ~AllNumbers(split(sol, <<",">>))
    THEN [NaoPlotado EXCEPT !.pontos_x = floats(split(temp, <<",">>)),
                            !.levantou = "float", !.aviso = INSIRA]
    ELSE Smooth(floats(split(temp, <<",">>)), floats(split(sol, <<",">>)))

\* the plotter on every pair of field texts a session can hold
Curvas == [temp \in TempInputs, sol \in SolInputs |-> Plotter(temp, sol)]

\* ------------------------------------------------------------------ state
VARIABLES
    configured,     \* the secrets are set and create_client returned: supabase is bound
    store,          \* the rows of table "conhecimento", in insertion order
    messages,       \* st.session_state.messages
    modo_tab,       \* the radio of the tables tab
    event,          \* the interaction that triggered the last page run, with its inputs
    banners,        \* configuration error banners shown by the last run
    evaluated,      \* the tabs whose block the last run evaluated to its end
    uncaught,       \* the exception that ended the last run, "" if it ran to the end
    calls,          \* outbound store and API calls of the last run, in order
    store_io,       \* what the store did for the last run's call, "" if none was made
    api_io,         \* what the GET of the last run did, NoApi if none was made
    balance_calls,  \* the calls of balance_stoichiometry in the last run
    balance_msg,    \* what the balancer showed in the last run
    admin_msg,      \* what the admin form showed in the last run
    temp_vals,      \* the text of the field "Temps"
    sol_vals,       \* the text of the field "Solubilidade"
    curva           \* what the plotter computed and showed in the last run

vars == <<configured, store, messages, modo_tab, event, banners, evaluated,
          uncaught, calls, store_io, api_io, balance_calls, balance_msg, admin_msg,
          temp_vals, sol_vals, curva>>

Ev(kind, a, b) == [a |-> a, b |-> b, kind |-> kind]
Call(op, args) == [op |-> op, args |-> args]
Row(p, r) == [pergunta |-> p, resposta |-> r]
Msg(role, content) == [role |-> role, content |-> content]

\* ------------------------------------------------------------------ the page
\* a client setup whose except block shows nothing
Setup_silent(cfg) == 0

\* Lines 15-20: the client setup; the number of banners it shows (one when it raises)
Setup(cfg) == IF cfg THEN 0 ELSE 1

\* Line 208: {item['pergunta']: item['resposta'] for item in res_db.data};
\* a later row replaces an earlier one with the same question
dados_locais(data) ==
    [q \in {data[i].pergunta : i \in 1..Len(data)} |->
        LET last == CHOOSE i \in 1..Len(data) :
                        /\ data[i].pergunta = q
                        /\ \A j \in 1..Len(data) : data[j].pergunta = q => j <= i
        IN  data[last].resposta]

\* prompt used as the key of the local match without lower-casing
prompt_raw(prompt) == prompt

\* Line 209: prompt.lower(), the word get_close_matches looks for
prompt_lower(prompt) == lower(prompt)

\* the compound name lower-cased before the lookup
termo_lower(prompt) == lower(prompt)

\* Line 214: the argument of busca_api_pubchem, the prompt as typed
termo(prompt) == prompt

\* an except block that keeps the default answer
except_default == NAO_ENCONTREI

\* Line 218: the answer set by the except block of the chat handler
except_resposta == ERRO_CONEXAO

\* Lines 214-216: the second try, given the outcome dados_api of the call
RemoteFallback(prompt, res, dados_api) ==
    [calls |-> <<Call("select", <<>>), Call("pubchem", <<termo(prompt)>>)>>,
     store_io |-> "ok", api_io |-> res,
     resposta |-> IF dados_api.raised THEN except_resposta
                  ELSE IF dados_api.some THEN FormatApi(dados_api)
                  ELSE NAO_ENCONTREI]

\* Lines 210-216: the answer of the match if there is one, else the second try
Matched(d, matches, prompt, res) ==
    IF matches # <<>>
    THEN [calls |-> <<Call("select", <<>>)>>, store_io |-> "ok", api_io |-> NoApi,
          resposta |-> d[matches[1]]]
    ELSE RemoteFallback(prompt, res, busca_api_pubchem(res))

\* Lines 209-216: the first try on the dict d of the rows read
LocalMatch(d, prompt, res) ==
    Matched(d, get_close_matches(prompt_lower(prompt), DOMAIN d, CUTOFF), prompt, res)

\* a Resolver that turns to PubChem when the store read fails
Resolver_api_on_failed_read(cfg, data, prompt, rd, res) ==
    IF ~cfg \/ rd # "ok"
    THEN [calls |-> <<Call("select", <<>>), Call("pubchem", <<termo(prompt)>>)>>,
          store_io |-> rd, api_io |-> res, resposta |-> NAO_ENCONTREI]
    ELSE LocalMatch(dados_locais(data), prompt, res)

\* Lines 203-218, the Resolver: the answer and the outbound calls, given what
\* the store read (rd) and the GET (res) do when they are reached.  The bare
\* except of line 217 covers the whole block, the call of line 214 included.
Resolver(cfg, data, prompt, rd, res) ==
    IF ~cfg
    THEN \* NameError on supabase, caught at line 217
         [calls |-> <<>>, store_io |-> "", api_io |-> NoApi,
          resposta |-> except_resposta]
    ELSE IF rd # "ok"
    THEN [calls |-> <<Call("select", <<>>)>>, store_io |-> rd, api_io |-> NoApi,
          resposta |-> except_resposta]
    ELSE LocalMatch(dados_locais(data), prompt, res)

\* Lines 224-244, the tables tab: the periodic table reads info["cor"], a key no
\* entry of ELEMENTOS (lines 54-184) has; the Kps table is static
TablesTab(modo) == IF modo = PERIODICA THEN "KeyError: 'cor'" ELSE ""

\* The tabs a run evaluates to their end: the script stops at an uncaught exception
TabsEvaluated(modo) == IF TablesTab(modo) = "" THEN 0..4 ELSE {0}

\* Lines 252-257: reag, prod = sides; the unpacking raises unless there are
\* exactly two sides, and the bare except shows the syntax error
Unpack(sides, bal) ==
    IF Len(sides) # 2
    THEN [calls |-> <<>>, msg |-> ERRO_SINTAXE]
    ELSE [calls |-> <<[reag |-> species(sides[1]), prod |-> species(sides[2])]>>,
          msg |-> IF bal = "ok" THEN <<"Equacao Balanceada">> ELSE ERRO_SINTAXE]

\* Lines 250-257, the balancer on a click: the message and the calls, given
\* what balance_stoichiometry does (bal) when it is reached
Balancer(reacao_input, bal) == Unpack(split(reacao_input, <<"-", ">">>), bal)

\* a form that asks for one of the two fields only
campos_algum(pergunta_n, resposta_n) == pergunta_n # <<>> \/ resposta_n # <<>>

\* Line 295: both fields are filled in (a non-empty str is truthy)
campos_ok(pergunta_n, resposta_n) == pergunta_n # <<>> /\ resposta_n # <<>>

\* the row with the question as typed
linha_raw(pergunta_n, resposta_n) == Row(pergunta_n, resposta_n)

\* Line 297: the row handed to insert
linha(pergunta_n, resposta_n) == Row(lower(pergunta_n), resposta_n)

\* an insert that replaces the rows with the same question
upsert(rows, row) ==
    Append(SelectSeq(rows, LAMBDA x : x.pergunta # row.pergunta), row)

\* Line 297: insert(...).execute() when it succeeds adds the row to the table
insert(rows, row) == Append(rows, row)

\* an error report that leaves the exception out
erro_generico(e) == <<"Erro ao salvar: ", "">>

\* Line 299: st.error(f"Erro ao salvar: {e}")
erro_salvar(e) == <<"Erro ao salvar: ", e>>

\* Lines 294-300, the admin form on submit: the message, the calls and the
\* store afterwards, given what the insert does (ins) when it is reached
AdminSubmit(cfg, rows, pergunta_n, resposta_n, ins) ==
    IF campos_ok(pergunta_n, resposta_n)
    THEN IF ~cfg
         THEN [store |-> rows, calls |-> <<>>, store_io |-> "",
               msg |-> erro_salvar("name 'supabase' is not defined")]
         ELSE LET row == linha(pergunta_n, resposta_n)
              IN  IF ins = "ok"
                  THEN [store |-> insert(rows, row),
                        calls |-> <<Call("insert", <<row.pergunta, row.resposta>>)>>,
                        store_io |-> ins, msg |-> SUCESSO]
                  ELSE [store |-> rows,
                        calls |-> <<Call("insert", <<row.pergunta, row.resposta>>)>>,
                        store_io |-> ins, msg |-> erro_salvar(ins)]
    ELSE [store |-> rows, calls |-> <<>>, store_io |-> "", msg |-> PREENCHA]

\* what execute() of the select can do: return the rows, raise (store
\* unreachable), or return rows without the selected keys (KeyError at line 208)
ReadOutcomes == {"ok", "APIError", "KeyError"}

\* what execute() of the insert can do
InsertOutcomes == {"ok", "APIError"}

\* what balance_stoichiometry can do
BalanceOutcomes == {"ok", "raise"}

NoChat == [calls |-> <<>>, store_io |-> "", api_io |-> NoApi, resposta |-> <<>>]
NoBalance == [calls |-> <<>>, msg |-> <<>>]

NoAdmin(rows) == [store |-> rows, calls |-> <<>>, store_io |-> "", msg |-> <<>>]

\* a transcript that keeps the turns of the last submission only
transcript_last_only(msgs, prompt, resposta) ==
    <<Msg("user", prompt), Msg("assistant", resposta)>>

\* Lines 200 and 220: the two appends to st.session_state.messages
transcript(msgs, prompt, resposta) ==
    msgs \o <<Msg("user", prompt), Msg("assistant", resposta)>>

\* The effects of one run in script order: the setup, the chat tab with the
\* outcome chat of its handler, the tables tab under the radio's value modo,
\* and, unless the run ended there, the balancer and the admin form with the
\* outcomes balance and admin of their handlers
Rerun(ev, modo, chat, balance, admin) ==
    /\ event' = ev
    /\ banners' = Setup(configured)
    /\ messages' = IF ev.kind = "chat"
                   THEN transcript(messages, ev.a, chat.resposta)
                   ELSE messages
    /\ modo_tab' = modo
    /\ uncaught' = TablesTab(modo)
    /\ evaluated' = TabsEvaluated(modo)
    /\ IF TablesTab(modo) = ""
       THEN /\ Len(admin.store) <= MaxRows
            /\ calls' = chat.calls \o admin.calls
            /\ store_io' = IF ev.kind = "chat" THEN chat.store_io ELSE admin.store_io
            /\ balance_calls' = balance.calls
            /\ balance_msg' = balance.msg
            /\ admin_msg' = admin.msg
            /\ store' = admin.store
       ELSE /\ calls' = chat.calls
            /\ store_io' = chat.store_io
            /\ balance_calls' = <<>>
            /\ balance_msg' = <<>>
            /\ admin_msg' = <<>>
            /\ store' = store
    /\ api_io' = chat.api_io
    /\ temp_vals' = IF ev.kind = "temps" THEN ev.a ELSE temp_vals
    /\ sol_vals' = IF ev.kind = "sols" THEN ev.a ELSE sol_vals
    /\ curva' = IF TablesTab(modo) = ""
                THEN Curvas[IF ev.kind = "temps" THEN ev.a ELSE temp_vals,
                            IF ev.kind = "sols" THEN ev.a ELSE sol_vals]
                ELSE NaoPlotado
    /\ UNCHANGED configured

\* One run of the script, top to bottom, triggered by the interaction ev; rd,
\* res, bal and ins are what the outside world does if the run reaches it.
PageRun(ev, rd, res, bal, ins) ==
    Rerun(ev,
          IF ev.kind = "radio" THEN ev.a[1] ELSE modo_tab,
          IF ev.kind = "chat"
          THEN Resolver(configured, store, ev.a, rd, res) ELSE NoChat,
          IF ev.kind = "balance" THEN Balancer(ev.a, bal) ELSE NoBalance,
          IF ev.kind = "admin"
          THEN AdminSubmit(configured, store, ev.a, ev.b, ins) ELSE NoAdmin(store))

\* The first load of the page: nothing stored, nothing said, the radio on its
\* first option
Init ==
    /\ configured \in BOOLEAN
    /\ store = <<>>
    /\ messages = <<>>
    /\ modo_tab = PERIODICA
    /\ event = Ev("load", <<>>, <<>>)
    /\ banners = Setup(configured)
    /\ evaluated = TabsEvaluated(PERIODICA)
    /\ uncaught = TablesTab(PERIODICA)
    /\ calls = <<>>
    /\ store_io = ""
    /\ api_io = NoApi
    /\ balance_calls = <<>>
    /\ balance_msg = <<>>
    /\ admin_msg = <<>>
    /\ temp_vals = TEMPS_DEFAULT
    /\ sol_vals = SOLS_DEFAULT
    /\ curva = NaoPlotado

\* the user picks an option of the radio (line 225)
SelectTable ==
    \E m \in {PERIODICA, KPS} :
        PageRun(Ev("radio", <<m>>, <<>>), "ok", NoApi, "ok", "ok")

\* the user submits the chat input (line 199); the input is never empty
Chat ==
    /\ Len(messages) + 2 <= MaxTurns
    /\ \E prompt \in Prompts, rd \in ReadOutcomes :
        \E res \in IF rd = "ok" THEN ApiOutcomes ELSE {NoApi} :
           PageRun(Ev("chat", prompt, <<>>), rd, res, "ok", "ok")

\* the user clicks "Executar Balanco" (line 250), which the last run rendered
Balance ==
    /\ 2 \in evaluated
    /\ \E reacao_input \in ReactionInputs, bal \in BalanceOutcomes :
           PageRun(Ev("balance", reacao_input, <<>>), "ok", NoApi, bal, "ok")

\* the operator submits admin_form (line 294), which the last run rendered
Admin ==
    /\ 4 \in evaluated
    /\ \E pergunta_n \in Perguntas, resposta_n \in Respostas, ins \in InsertOutcomes :
           PageRun(Ev("admin", pergunta_n, resposta_n), "ok", NoApi, "ok", ins)

Next == SelectTable \/ Chat \/ Balance \/ Admin

Spec == Init /\ [][Next]_vars

\* ------------------------------------------------- a session at the plotter
\* the user edits the field "Temps" (line 271), which the last run rendered
EditTemps ==
    /\ 3 \in evaluated
    /\ \E text \in TempInputs \ {temp_vals} :
           PageRun(Ev("temps", text, <<>>), "ok", NoApi, "ok", "ok")

\* the user edits the field "Solubilidade" (line 272), which the last run rendered
EditSols ==
    /\ 3 \in evaluated
    /\ \E text \in SolInputs \ {sol_vals} :
           PageRun(Ev("sols", text, <<>>), "ok", NoApi, "ok", "ok")

NextPlotter == SelectTable \/ EditTemps \/ EditSols

SpecPlotter == Init /\ [][NextPlotter]_vars

\* -------------------------------------------------- a session of several chats
\* the turns a session's transcript may reach
MaxTranscript == 4

\* the questions of a longer session: one that a stored "a" answers, one that
\* no stored question is similar to
FollowUps == {<<"A">>, <<"b", "b">>}

\* the user submits the chat input again and again (line 199)
ChatAgain ==
    /\ Len(messages) + 2 <= MaxTranscript
    /\ \E prompt \in FollowUps, rd \in ReadOutcomes :
        \E res \in IF rd = "ok" THEN ApiOutcomes ELSE {NoApi} :
           PageRun(Ev("chat", prompt, <<>>), rd, res, "ok", "ok")

NextSession == SelectTable \/ ChatAgain \/ Balance \/ Admin

SpecSession == Init /\ [][NextSession]_vars

\* ------------------------------------------------------------------ claims
\* the last run handled a chat submission
ChatRun == event.kind = "chat"

\* the assistant's answer of the last run's chat submission
Answer == messages[Len(messages)].content

\* numbers of the last run's calls of one kind
NCalls(op) == Cardinality({k \in 1..Len(calls) : calls[k].op = op})

\* case-insensitive similarity of a stored question and a query, as a fraction
Similarity(pergunta, query) == ratio(lower(pergunta), lower(query))

\* the rows whose question is similar enough to the query
Qualifying(query) ==
    {i \in 1..Len(store) : FracGE(Similarity(store[i].pergunta, query), CUTOFF)}

\* of those, the rows no other row is closer than
Closest(query) ==
    {i \in Qualifying(query) :
        \A j \in Qualifying(query) :
            FracGE(Similarity(store[i].pergunta, query),
                   Similarity(store[j].pergunta, query))}

\* the GET of the last run gave no first property record: it raised, the status
\* was not 200, the body was no JSON, or the record list was empty
ApiNoResult ==
    \/ api_io.kind = "raise"
    \/ api_io.kind = "response" /\ api_io.status # 200
    \/ api_io.kind = "response" /\ api_io.body # "json"
    \/ api_io.kind = "response" /\ api_io.props = <<>>

\* C1: when the store read returns the rows and some stored question is within
\* similarity 0.6 of the query, ignoring case, the answer is the stored answer of
\* a closest question and the run makes no call of the compound API.
C1_LocalMatchAnswers ==
    (ChatRun /\ store_io = "ok" /\ Qualifying(event.a) # {}) =>
        /\ Answer \in {store[i].resposta : i \in Closest(event.a)}
        /\ NCalls("pubchem") = 0
        /\ api_io = NoApi

\* C1 witness: a query with an upper-case letter, two qualifying rows at
\* different distances with different answers, answered from the closer one
C1_Witness ==
    /\ ChatRun /\ store_io = "ok"
    /\ event.a # lower(event.a)
    /\ Cardinality(Qualifying(event.a)) = 2
    /\ Cardinality(Closest(event.a)) = 1
    /\ store[1].resposta # store[2].resposta
    /\ Answer = store[CHOOSE i \in Closest(event.a) : TRUE].resposta

\* C2: when the store read returns the rows and no stored question reaches
\* similarity 0.6, the run calls the compound API exactly once, after the read,
\* with the query as typed, and answers "not found" exactly when that call gave
\* no result.
C2_ApiOnceThenFallback ==
    (ChatRun /\ store_io = "ok" /\ Qualifying(event.a) = {}) =>
        /\ calls = <<Call("select", <<>>), Call("pubchem", <<event.a>>)>>
        /\ api_io # NoApi
        /\ ApiNoResult <=> Answer = NAO_ENCONTREI

\* C2 witness: rows are stored, none is close to a query with an upper-case
\* letter, the GET times out and the answer is "not found"
C2_Witness ==
    /\ ChatRun /\ store_io = "ok"
    /\ store # <<>> /\ Qualifying(event.a) = {}
    /\ event.a # lower(event.a)
    /\ NCalls("pubchem") = 1
    /\ api_io.kind = "raise"
    /\ Answer = NAO_ENCONTREI

\* C3: when the store read returns the rows, none qualifies, and the API call
\* raises, times out, returns a status other than 200 or a body without a first
\* record, the answer is "not found" and the chat tab runs to its end.
C3_ApiFailureNotFound ==
    (ChatRun /\ store_io = "ok" /\ api_io # NoApi /\ ApiNoResult) =>
        /\ Answer = NAO_ENCONTREI
        /\ messages[Len(messages)].role = "assistant"
        /\ 0 \in evaluated

\* C3 witness: a 200 whose record list is empty, answered "not found"
C3_Witness ==
    /\ ChatRun /\ store_io = "ok"
    /\ api_io.kind = "response" /\ api_io.status = 200 /\ api_io.props = <<>>
    /\ api_io.body = "json"
    /\ Answer = NAO_ENCONTREI

\* the store step of the last run's chat raised: no client, or the read failed
StoreStepRaised == ChatRun /\ (~configured \/ store_io \notin {"", "ok"})

\* the API step of the last run's chat raised inside busca_api_pubchem: the GET
\* raised, or the 200 body had no first record to read
ApiStepRaised ==
    /\ ChatRun
    /\ \/ api_io.kind = "raise"
       \/ api_io.kind = "response" /\ api_io.status = 200
            /\ (api_io.body # "json" \/ api_io.props = <<>>)

\* C4 as stated: every caught error of either step gives the "service
\* connection error" answer, and "not found" is given only when both steps
\* complete without error and without a result.
C4_AnyCaughtErrorIsConnectionError ==
    ChatRun =>
        /\ (StoreStepRaised \/ ApiStepRaised) => Answer = ERRO_CONEXAO
        /\ Answer = NAO_ENCONTREI => ~StoreStepRaised /\ ~ApiStepRaised

\* C4 amended: an error of the store step gives the "service connection error"
\* answer, which differs from "not found"; an error of the API step is caught
\* inside busca_api_pubchem and gives "not found"; "not found" is given only
\* when the store read completed with no qualifying row and the API call gave
\* no result.
C4_StoreErrorIsConnectionError ==
    ChatRun =>
        /\ ERRO_CONEXAO # NAO_ENCONTREI
        /\ StoreStepRaised => Answer = ERRO_CONEXAO /\ NCalls("pubchem") = 0
        /\ ApiStepRaised => Answer = NAO_ENCONTREI
        /\ Answer = ERRO_CONEXAO => StoreStepRaised
        /\ Answer = NAO_ENCONTREI =>
               /\ store_io = "ok" /\ Qualifying(event.a) = {}
               /\ NCalls("pubchem") = 1 /\ ApiNoResult

\* C4 witness: the store read raises with a client configured
C4_Witness ==
    /\ ChatRun /\ configured /\ store_io = "APIError"
    /\ Answer = ERRO_CONEXAO

\* the last run handled a submission of the admin form
AdminRun == event.kind = "admin"

\* C5: a submission with the question or the answer empty makes no insert call
\* and shows the warning; every stored row has a non-empty question and a
\* non-empty answer.
C5_EmptyFieldNoWrite ==
    /\ (AdminRun /\ (event.a = <<>> \/ event.b = <<>>)) =>
           /\ NCalls("insert") = 0
           /\ calls = <<>>
           /\ admin_msg = PREENCHA
    /\ \A i \in 1..Len(store) :
           store[i].pergunta # <<>> /\ store[i].resposta # <<>>

\* C5 witness: rows are stored and a submission with an answer but no question
\* was warned about
C5_Witness ==
    /\ AdminRun /\ event.a = <<>> /\ event.b # <<>>
    /\ admin_msg = PREENCHA
    /\ Len(store) = MaxRows

\* s is t with its upper-case letters replaced by their lower-case ones
IsLowerCased(s, t) ==
    /\ Len(s) = Len(t)
    /\ \A i \in 1..Len(t) :
           \/ t[i] \in {"a", "b"} /\ s[i] = t[i]
           \/ t[i] = "A" /\ s[i] = "a"
           \/ t[i] = "B" /\ s[i] = "b"

\* C6: a submission with both fields filled in and an insert that succeeds
\* appends exactly one row, the question lower-cased and the answer as typed,
\* with one insert call, and shows the success message.
C6_InsertLowerCasedRow ==
    [][(event'.kind = "admin" /\ event'.a # <<>> /\ event'.b # <<>>
        /\ store_io' = "ok") =>
           /\ Len(store') = Len(store) + 1
           /\ SubSeq(store', 1, Len(store)) = store
           /\ IsLowerCased(store'[Len(store')].pergunta, event'.a)
           /\ store'[Len(store')].resposta = event'.b
           /\ Len(calls') = 1 /\ calls'[1].op = "insert"
           /\ admin_msg' = SUCESSO]_vars

\* C6 witness: "aB" with answer "A" was stored as ("ab", "A")
C6_Witness ==
    /\ AdminRun /\ event.a = <<"a", "B">> /\ event.b = <<"A">>
    /\ admin_msg = SUCESSO
    /\ store # <<>>
    /\ store[Len(store)] = Row(<<"a", "b">>, <<"A">>)

\* the last run handled a click on the balancer's button
BalanceRun == event.kind = "balance"

\* the positions of "->" in a reaction text
Arrows(s) == {i \in 1..(Len(s) - 1) : s[i] = "-" /\ s[i + 1] = ">"}

\* a species name as handed to the balancing routine: no blank at either end,
\* no "+" inside
Trimmed(x) ==
    /\ x # <<>> => x[1] # " " /\ x[Len(x)] # " "
    /\ \A i \in 1..Len(x) : x[i] # "+"

\* C7: a reaction text with one "->" calls the balancing routine exactly once,
\* with each side split on "+" and trimmed ("H2 + O2 -> H2O" gives [H2, O2] and
\* [H2O]); a text without "->" shows the syntax error and calls nothing.
C7_BalancerParsing ==
    BalanceRun =>
        /\ Arrows(event.a) = {} =>
               balance_calls = <<>> /\ balance_msg = ERRO_SINTAXE
        /\ Cardinality(Arrows(event.a)) = 1 =>
               /\ Len(balance_calls) = 1
               /\ \A i \in 1..Len(balance_calls[1].reag) : Trimmed(balance_calls[1].reag[i])
               /\ \A i \in 1..Len(balance_calls[1].prod) : Trimmed(balance_calls[1].prod[i])
        /\ event.a \in { <<"H2", " ", "+", " ", "O2", " ", "-", ">", " ", "H2O">>,
                         <<"H2", "+", "O2", "-", ">", "H2O">> } =>
               balance_calls = <<[reag |-> << <<"H2">>, <<"O2">> >>,
                                  prod |-> << <<"H2O">> >>]>>

\* C7 witness: "H2 + O2 -> H2O" was balanced
C7_Witness ==
    /\ BalanceRun
    /\ event.a = <<"H2", " ", "+", " ", "O2", " ", "-", ">", " ", "H2O">>
    /\ Len(balance_calls) = 1
    /\ balance_msg = <<"Equacao Balanceada">>

\* C8: every page run evaluates all five tabs, no exception ends it early.
C8_EveryTabEvaluated ==
    uncaught = "" /\ evaluated = 0..4

\* C9: without store credentials every run shows the banner once and goes on
\* to the chat tab; a chat submission gets the fixed "service connection
\* error" answer as an assistant turn; an admin submission with both fields
\* filled in shows an error, and no run makes a store call or writes a row.
C9_MissingCredentialsContained ==
    /\ banners = IF configured THEN 0 ELSE 1
    /\ ~configured =>
           /\ 0 \in evaluated
           /\ calls = <<>> /\ store = <<>>
           /\ ChatRun =>
                  /\ messages[Len(messages)] = Msg("assistant", ERRO_CONEXAO)
                  /\ messages[Len(messages) - 1] = Msg("user", event.a)
           /\ (AdminRun /\ event.a # <<>> /\ event.b # <<>>) =>
                  /\ Len(admin_msg) = 2 /\ admin_msg[1] = "Erro ao salvar: "
                  /\ admin_msg # SUCESSO

\* C9 witness: without credentials a chat was answered and an admin submission
\* with both fields then reported its error
C9_Witness ==
    /\ ~configured /\ banners = 1
    /\ messages # <<>>
    /\ AdminRun /\ event.a # <<>> /\ event.b # <<>>
    /\ admin_msg # <<>>

\* C10: a page run never changes or removes a stored row; a chat run leaves the
\* store as it is and makes the read and at most one API call; the rows change
\* only by one row appended by an admin submission that succeeded.
C10_StoreAppendOnly ==
    [][/\ Len(store') >= Len(store)
       /\ SubSeq(store', 1, Len(store)) = store
       /\ event'.kind = "chat" =>
              /\ store' = store
              /\ \A k \in 1..Len(calls') : calls'[k].op \in {"select", "pubchem"}
              /\ Cardinality({k \in 1..Len(calls') : calls'[k].op = "pubchem"}) <= 1
              /\ Cardinality({k \in 1..Len(calls') : calls'[k].op = "select"}) <= 1
       /\ store' # store =>
              /\ event'.kind = "admin" /\ admin_msg' = SUCESSO
              /\ Len(store') = Len(store) + 1]_vars

\* C10 witness: two rows with the same question are stored, the second
\* submission succeeded after a chat
C10_Witness ==
    /\ Len(store) = 2 /\ store[1].pergunta = store[2].pergunta
    /\ store[1].resposta # store[2].resposta
    /\ AdminRun /\ admin_msg = SUCESSO
    /\ messages # <<>>

\* C11: when the insert of a submission with both fields filled in raises, the
\* run made exactly one insert call and no other call, the store is as it was,
\* the form shows "Erro ao salvar: " followed by the exception's text, and not
\* the success message.
C11_InsertFailureReported ==
    [][(event'.kind = "admin" /\ event'.a # <<>> /\ event'.b # <<>>
        /\ store_io' \notin {"", "ok"}) =>
           /\ Len(calls') = 1 /\ calls'[1].op = "insert"
           /\ store' = store
           /\ admin_msg' = <<"Erro ao salvar: ", store_io'>>
           /\ admin_msg' # SUCESSO]_vars

\* C11 witness: with a row stored, an insert raised APIError and was reported
C11_Witness ==
    /\ AdminRun /\ event.a # <<>> /\ event.b # <<>>
    /\ store_io = "APIError"
    /\ store # <<>>
    /\ admin_msg = <<"Erro ao salvar: ", "APIError">>

\* the same text up to the casing of its letters
SameLetters(s, t) ==
    /\ Len(s) = Len(t)
    /\ \A i \in 1..Len(s) :
          \/ s[i] = t[i]
          \/ <<s[i], t[i]>> \in {<<"a", "A">>, <<"A", "a">>, <<"b", "B">>, <<"B", "b">>}

\* the rows of a store whose question is the lower-cased form of q
RowsFor(rows, q) == {i \in 1..Len(rows) : IsLowerCased(rows[i].pergunta, q)}

\* C12: (a) a chat query submitted right after the form stored the pair (q, a),
\* equal to q up to letter casing, with no other row stored under q's
\* lower-cased form and the store read succeeding, is answered with a and makes
\* no PubChem request; (b) in every chat run whose read succeeded and whose store
\* holds exactly one row under the query's lower-cased form, the answer is that
\* row's answer and no PubChem request was made.
C12_LearnedEntryAnswers ==
    /\ [][(event.kind = "admin" /\ admin_msg = SUCESSO
           /\ event'.kind = "chat" /\ store_io' = "ok"
           /\ SameLetters(event'.a, event.a)
           /\ RowsFor(SubSeq(store, 1, Len(store) - 1), event.a) = {}) =>
              /\ messages'[Len(messages')].content = event.b
              /\ \A i \in 1..Len(calls') : calls'[i].op # "pubchem"
              /\ api_io' = NoApi]_vars
    /\ [](ChatRun /\ store_io = "ok" =>
            \A i \in 1..Len(store) :
               RowsFor(store, event.a) = {i} =>
                  /\ Answer = store[i].resposta
                  /\ NCalls("pubchem") = 0)

\* C12 witness: the question typed in upper case was stored next to another row
\* and a query in upper case was answered with its answer
C12_Witness ==
    /\ ChatRun /\ store_io = "ok"
    /\ event.a = <<"A">>
    /\ Len(store) = 2
    /\ RowsFor(store, event.a) = {2}
    /\ store[2].resposta = <<"A">>
    /\ Answer = <<"A">>
    /\ NCalls("pubchem") = 0

\* C15: a chat run whose store read raised (no client, or the read itself)
\* made no PubChem request; a PubChem request is always the second call of its
\* run, after a select that succeeded and found no row similar enough.
C15_NoApiAfterFailedRead ==
    ChatRun =>
        /\ StoreStepRaised =>
               /\ \A k \in 1..Len(calls) : calls[k].op = "select"
               /\ Len(calls) <= 1
               /\ api_io = NoApi
        /\ \A k \in 1..Len(calls) :
               calls[k].op = "pubchem" =>
                   /\ k = 2 /\ calls[1].op = "select"
                   /\ store_io = "ok"
                   /\ Qualifying(event.a) = {}

\* C15 witness: with a row stored, the read raised on a query no row is similar
\* to, and the run ended after the select alone
C15_Witness ==
    /\ ChatRun /\ configured
    /\ store_io = "KeyError"
    /\ store # <<>> /\ Qualifying(event.a) = {}
    /\ calls = <<Call("select", <<>>)>>
    /\ api_io = NoApi

\* the answer the Resolver gave in the run that led to the primed state, read
\* from what that run's store read and GET did
ResolverAnswer ==
    Resolver(configured, store, event'.a,
             IF store_io' = "" THEN "ok" ELSE store_io', api_io').resposta

\* C14: the transcript always has even length with user turns at the odd and
\* assistant turns at the even positions; a chat submission appends the user
\* turn with the submitted text and then the assistant turn with the Resolver's
\* answer, whatever the store and the API did, and leaves the earlier turns as
\* they were; no other run changes the transcript.
C14_TranscriptAlternates ==
    /\ [](/\ Len(messages) % 2 = 0
          /\ \A i \in 1..Len(messages) :
                messages[i].role = IF i % 2 = 1 THEN "user" ELSE "assistant")
    /\ [][IF event'.kind = "chat"
          THEN /\ Len(messages') = Len(messages) + 2
               /\ SubSeq(messages', 1, Len(messages)) = messages
               /\ messages'[Len(messages) + 1] = Msg("user", event'.a)
               /\ messages'[Len(messages) + 2] = Msg("assistant", ResolverAnswer)
          ELSE messages' = messages]_vars

\* C14 witness: a second submission whose store read raised was appended after
\* the turns of a first one that had been answered from the store
C14_Witness ==
    /\ ChatRun /\ StoreStepRaised
    /\ Len(messages) = 4
    /\ messages[1] = Msg("user", <<"A">>)
    /\ messages[2].content \notin {ERRO_CONEXAO, NAO_ENCONTREI}
    /\ messages[3] = Msg("user", <<"b", "b">>)
    /\ messages[4] = Msg("assistant", ERRO_CONEXAO)

\* the last run evaluated the plotter's tab
PlotterRun == 3 \in evaluated

\* the numbers a field text of the plotter parses to
Parsed(text) == floats(split(text, <<",">>))

\* both field texts parse, to lists of numbers of the same length
ParseToPairedLists ==
    /\ AllNumbers(split(temp_vals, <<",">>))
    /\ AllNumbers(split(sol_vals, <<",">>))
    /\ Len(Parsed(temp_vals)) = Len(Parsed(sol_vals))

\* equality of fractions with positive denominators
FracEq(f, g) == f[1] * g[2] = g[1] * f[2]

\* C13: whenever the plotter runs on field texts that parse to two lists of
\* numbers of the same length, it has computed 300 abscissae, the first equal to
\* the least and the last to the greatest temperature, and the degree 2 spline
\* that takes at every temperature of the input the solubility given for it.
C13_SmoothCurveComputed ==
    (PlotterRun /\ ParseToPairedLists) =>
        /\ curva.x_smooth.n = 300
        /\ FracEq(curva.x_smooth.primeiro, <<ArrMin(Parsed(temp_vals)), 1>>)
        /\ FracEq(curva.x_smooth.ultimo, <<ArrMax(Parsed(temp_vals)), 1>>)
        /\ curva.interp.grau = 2
        /\ \A i \in 1..Len(Parsed(temp_vals)) :
              \E j \in 1..Len(curva.interp.sitios) :
                 /\ curva.interp.sitios[j] = Parsed(temp_vals)[i]
                 /\ curva.interp.valores[j] = Parsed(sol_vals)[i]

====
